---- MODULE Spec2Model ----
(***************************************************************************)
(* pdok-map-viewer: the LayerManager service (reactive state for basemaps  *)
(* and overlays), the MapPanel component (three effects, ngAfterViewInit   *)
(* and its fallback timer), the TextPanel overlay toggle, the BAG layer's *)
(* resolution window and tile URLs, and the App's saved split sizes.       *)
(*                                                                         *)
(* OpenLayers layer objects live in the store `ol`; a layer reference is    *)
(* its index there.  The four layer factories own the first four slots,    *)
(* and every caller of addLayer / addBaseMap supplies a newly constructed  *)
(* layer in the next unused slot, as the factories of the repository do.   *)
(*                                                                         *)
(* Resolutions are integers in units of 10^-5 map units per pixel, so that *)
(* scaleDenominator * 0.00028 is scaleDenominator * 28.                    *)
(***************************************************************************)
EXTENDS Integers, Sequences, FiniteSets, TLC

\* ------------------------------------------------------------------ bounds
MaxCalls == 2            \* method calls and clicks made from outside
MaxLevels == 14          \* tile matrices in the largest tile matrix set
MaxTiles == 2            \* tiles the BAG source asks a URL for

\* --------------------------------------------------------------- constants
NULL == -1
Infinity == 2147483647
PixelSize == 28
Z11_INDEX == 11
Z13_INDEX == 13
Z12 == 12

BaseMapIds == {"osm", "pdok-brt", "luchtfoto"}
\* The id a caller of addBaseMap passes: a second 'luchtfoto' when the factory
\* built one, the only one when it failed.
NewBaseMapIds == {"luchtfoto"}
OverlayIds == {"bag", "osm"}
Signals == {"availableBaseMaps", "activeBaseMap", "layers"}
Effects == {1, 2, 3}

VARIABLES
  ol,                 \* store of OpenLayers layer objects
  currentResolution,  \* LayerManager._currentResolution
  availableBaseMaps,  \* LayerManager._availableBaseMaps
  activeBaseMapId,    \* LayerManager._activeBaseMapId
  layers,             \* LayerManager._layers
  lwaValue,           \* cached value of the computed layersWithAvailability
  lwaDirty,           \* the computed must be re-evaluated on its next read
  basePc,             \* position of initializeBaseMapsAsync
  baseMaps,           \* its local array baseMaps
  overlayPc,          \* position of initializeDefaultOverlayAsync / createLayer
  bagResolutions,     \* resolutions of the BAG tile grid (sorted), once built
  tileMatrixSet,      \* createLayer's local tileMatrixSet (<<>> before the response)
  requests,           \* HTTP requests issued by BagLayerService, in order
  mapInitialized,     \* MapPanel.mapInitialized (this.map exists)
  mapLayers,          \* this.map.getLayers().getArray()
  timer,              \* the setTimeout(..., 100) of ngAfterViewInit
  effectDirty,        \* effect e is scheduled to run
  effectDeps,         \* signals effect e read during its last run
  event,              \* the DOM event of the TextPanel handler that ran last
  calls,              \* method calls and clicks made so far
  outcome,            \* how each awaited request has settled
  bagCreateLayer,     \* the promise BagLayerService.createLayer returned
  tiles,              \* tiles the BAG source asked a URL for: coordinate and URL
  storage,            \* localStorage item 'pdok-map-layout-sizes'
  splitSizes          \* App.splitSizes

vars == <<ol, currentResolution, availableBaseMaps, activeBaseMapId, layers,
          lwaValue, lwaDirty, basePc, baseMaps, overlayPc, bagResolutions,
          tileMatrixSet, requests, mapInitialized, mapLayers, timer, effectDirty, effectDeps,
          event, calls, outcome, bagCreateLayer, tiles, storage, splitSizes>>

lmVars == <<currentResolution, availableBaseMaps, activeBaseMapId, layers>>
initVars == <<basePc, baseMaps, overlayPc, bagResolutions, tileMatrixSet, requests,
              outcome, bagCreateLayer>>
appVars == <<storage, splitSizes>>
panelVars == <<mapInitialized, mapLayers, timer>>

\* ------------------------------------------------------- layer objects
\* new TileLayer / new VectorTileLayer: OpenLayers' default for `visible` is
\* true unless the options say otherwise.
NewLayer(id, visible, minRes, maxRes) ==
  [created |-> TRUE, id |-> id, visible |-> visible, isBaseMap |-> FALSE,
   minResolution |-> minRes, maxResolution |-> maxRes]

NotCreated ==
  [created |-> FALSE, id |-> "", visible |-> FALSE, isBaseMap |-> FALSE,
   minResolution |-> 0, maxResolution |-> 0]

\* The layers the factories build, and the slot of each.
FactoryLayers == <<"osm", "pdok-brt", "luchtfoto", "bag">>
SlotOf(id) == CHOOSE k \in 1..Len(FactoryLayers) : FactoryLayers[k] = id
Slots == 1..(Len(FactoryLayers) + MaxCalls)

\* The slot of the next layer a caller constructs.
FreshSlot == Len(FactoryLayers) + Cardinality({k \in Slots : k > Len(FactoryLayers) /\ ol[k].created}) + 1

Construct(store, slot, layer) == [store EXCEPT ![slot] = layer]

\* A method call or click from outside the program, while the budget lasts.
Called == calls < MaxCalls /\ calls' = calls + 1

setVisible(store, l, v) == [store EXCEPT ![l].visible = v]

\* ------------------------------------------------- JavaScript values
\* A value as JSON.parse can return it or a drag event can carry it: its class,
\* the number or the text it holds, and the items of an array.
JsValue(class, value, nan, text, items) ==
  [class |-> class, value |-> value, nan |-> nan, text |-> text, items |-> items]

JsNumber(n) == JsValue("Number", n, FALSE, "", <<>>)
NaN == JsValue("Number", 0, TRUE, "", <<>>)
JsString(t) == JsValue("String", 0, FALSE, t, <<>>)
JsNull == JsValue("Null", 0, FALSE, "", <<>>)
JsObject == JsValue("Object", 0, FALSE, "", <<>>)
JsTrue == JsValue("Boolean", 0, FALSE, "", <<>>)
JsArray(items) == JsValue("Array", 0, FALSE, "", items)

typeof(v) ==
  CASE v.class = "Number" -> "number"
    [] v.class = "String" -> "string"
    [] v.class = "Boolean" -> "boolean"
    [] OTHER -> "object"

\* parseFloat: the number a text starts with, NaN when it starts with none.
parseFloat(t) ==
  CASE t = "30" -> JsNumber(30)
    [] t = "70" -> JsNumber(70)
    [] t = "80" -> JsNumber(80)
    [] OTHER -> NaN

\* A string: a localStorage item (Absent is getItem's null), the text
\* JSON.stringify produces.  A well-formed JSON text is held as the value it
\* denotes.
Absent == [kind |-> "null", json |-> JsNull]
EmptyText == [kind |-> "empty", json |-> JsNull]
Malformed == [kind |-> "malformed", json |-> JsNull]
JsonText(v) == [kind |-> "json", json |-> v]

\* JSON.stringify: NaN is written as null, inside arrays too.
Jsonified(v) == IF v.class = "Number" /\ v.nan THEN JsNull ELSE v

stringify(v) ==
  JsonText(IF v.class = "Array"
           THEN JsArray([i \in 1..Len(v.items) |-> Jsonified(v.items[i])])
           ELSE Jsonified(v))

\* ---------------------------------------------------------------- App
\* The default fallback [20, 80].
DefaultSizes == JsArray(<<JsNumber(20), JsNumber(80)>>)

\* App.getSavedSizes, given what localStorage.getItem returned.  JSON.parse
\* throws on a text that is not JSON; the catch falls through to the default.
getSavedSizes(savedSizes) ==
  IF savedSizes.kind \notin {"null", "empty"}
  THEN IF savedSizes.kind = "json"
       THEN LET sizes == savedSizes.json
            IN IF /\ sizes.class = "Array"
                  /\ Len(sizes.items) = 2
                  /\ typeof(sizes.items[1]) = "number"
               THEN sizes
               ELSE DefaultSizes
       ELSE DefaultSizes
  ELSE DefaultSizes

\* The sizes a dragEnd event of the splitter carries: numbers, or strings such
\* as the wildcard '*'.
DragSizes ==
  {<<JsNumber(30), JsNumber(70)>>, <<JsString("30"), JsString("70")>>,
   <<JsString("*"), JsNumber(70)>>, <<JsNumber(30), JsString("*")>>,
   <<JsNumber(70), JsNumber(30)>>, <<JsString("80"), JsNumber(20)>>,
   <<JsNumber(30), JsNumber(30), JsNumber(40)>>}

\* What the localStorage item may hold when it was written by anything else:
\* another version of the application, another script, the user.
StoredTexts ==
  {EmptyText, Malformed, JsonText(JsNumber(20)), JsonText(JsString("20,80")),
   JsonText(JsNull), JsonText(JsObject), JsonText(JsArray(<<>>)),
   JsonText(JsArray(<<JsNumber(20)>>)),
   JsonText(JsArray(<<JsNumber(20), JsNumber(80)>>)),
   JsonText(JsArray(<<JsNumber(35), JsNumber(65)>>)),
   JsonText(JsArray(<<JsNumber(20), JsString("80")>>)),
   JsonText(JsArray(<<JsString("20"), JsNumber(80)>>)),
   JsonText(JsArray(<<JsNull, JsNumber(80)>>)),
   JsonText(JsArray(<<JsNumber(20), JsNull>>)),
   JsonText(JsArray(<<JsNumber(20), JsTrue>>)),
   JsonText(JsArray(<<JsNumber(20), JsArray(<<JsNumber(80)>>)>>)),
   JsonText(JsArray(<<JsObject, JsObject>>)),
   JsonText(JsTrue),
   JsonText(JsArray(<<JsNumber(20), JsNumber(30), JsNumber(50)>>))}

\* ------------------------------------------------------------ requests
\* What the two initialisations await: the BRT and Luchtfoto factories, and the
\* two HTTP requests of the BAG factory.
Awaited == {"pdok-brt", "luchtfoto", "tileMatrixSets", "styles"}

\* An awaited request settles.
Settled(request, how) == outcome' = [outcome EXCEPT ![request] = how]

\* ------------------------------------------------------------ signals
\* A signal write notifies the effects that read the signal in their last run.
Notify(sigs) ==
  [e \in Effects |-> effectDirty[e] \/ (effectDeps[e] \cap sigs # {})]

\* ------------------------------------------------- BAG resolution window
\* The quad pyramid the tile matrix sets are cut from, levels 0 .. MaxLevels:
\* every level halves the scale denominator of the level above it.
scaleDenominator(k) == 2 ^ (MaxLevels - k)

\* matrix.scaleDenominator * 0.00028
Resolution(sd) == sd * PixelSize

\* The tile matrix sets the PDOK API may answer with: the first n levels listed
\* from level 0 upwards, and the deepest set also listed the other way round.
TileMatrices(n, ascending) ==
  [i \in 1..n |->
     LET k == IF ascending THEN i - 1 ELSE n - i
     IN [id |-> k, scaleDenominator |-> scaleDenominator(k)]]

TileMatrixSets ==
  {TileMatrices(n, TRUE) : n \in Z13_INDEX..MaxLevels}
    \cup {TileMatrices(MaxLevels, FALSE)}

\* The resolutions the map view can report: zoom levels Z10 .. Z14 of the pyramid.
ViewZoomLevels == (Z11_INDEX - 1)..(Z13_INDEX + 1)
ViewResolutions == {Resolution(scaleDenominator(k)) : k \in ViewZoomLevels}

\* [...tileMatrices].sort((a, b) => b.scaleDenominator - a.scaleDenominator):
\* a stable sort, so a matrix goes behind those with a larger scale denominator
\* and behind those with an equal one that came before it.
PlaceDescending(ms, j) ==
  1 + Cardinality({k \in 1..Len(ms) :
                     \/ ms[k].scaleDenominator - ms[j].scaleDenominator > 0
                     \/ (ms[k].scaleDenominator = ms[j].scaleDenominator /\ k < j)})

SortDescending(ms) ==
  [i \in 1..Len(ms) |-> ms[CHOOSE j \in 1..Len(ms) : PlaceDescending(ms, j) = i]]

GridResolutions(tileMatrices) ==
  LET sortedMatrices == SortDescending(tileMatrices)
  IN [i \in 1..Len(sortedMatrices) |-> Resolution(sortedMatrices[i].scaleDenominator)]

\* The [minResolution, maxResolution] window of buildVectorTileLayer.  The
\* source indexes from 0, sequences here from 1.
ResolutionWindow(resolutions) ==
  IF Len(resolutions) > Z13_INDEX
  THEN [maxResolution |-> resolutions[Z11_INDEX + 1],
        minResolution |-> resolutions[Z13_INDEX + 1]]
  ELSE [maxResolution |-> Infinity, minResolution |-> 0]

buildVectorTileLayer(tileMatrices) ==
  LET w == ResolutionWindow(GridResolutions(tileMatrices))
  IN NewLayer("bag", TRUE, w.minResolution, w.maxResolution)

\* ---------------------------------------------------- BAG tile URLs
pdokBaseUrl == "https://api.pdok.nl/lv/bag/ogc/v1"
tileMatrixSetId == "NetherlandsRDNewQuad"

\* A tile coordinate is [z, x, y]; OpenLayers may also pass null.
NullCoord == <<>>
TileCoords ==
  {<<z, x, y>> : z \in Z11_INDEX..Z13_INDEX, x \in 0..1, y \in 0..1} \cup {NullCoord}

\* What the URL function returns for a null coordinate.
undefined == <<>>

\* The template literal, as its parts: base, 'tiles', matrix set, z, y, x and
\* the query string.
TileUrl(base, matrixSet, z, row, col) ==
  <<base, "tiles", matrixSet, z, row, col, "f=mvt">>

\* Mutant: the zoom level of the tile coordinate is used.
tileUrlFunctionAtCoordZoom(tileCoord) ==
  IF tileCoord = NullCoord THEN undefined
  ELSE TileUrl(pdokBaseUrl, tileMatrixSetId, tileCoord[1], tileCoord[3], tileCoord[2])

\* tileUrlFunction of buildVectorTileLayer; the source indexes from 0.
tileUrlFunction(tileCoord) ==
  IF tileCoord = NullCoord THEN undefined
  ELSE LET z == Z12
           x == tileCoord[2]
           y == tileCoord[3]
       IN TileUrl(pdokBaseUrl, tileMatrixSetId, z, y, x)

\* ------------------------------------------- LayerManager: the computed
isAvailable(store, l, resolution) ==
  resolution <= store[l].maxResolution /\ resolution >= store[l].minResolution

\* The value the computed returns.
AvailabilityOf(store, ls, resolution) ==
  [i \in 1..Len(ls) |->
     [id |-> ls[i].id, visible |-> ls[i].visible, layer |-> ls[i].layer,
      isAvailable |-> IF resolution = NULL THEN FALSE
                      ELSE isAvailable(store, ls[i].layer, resolution)]]

\* The setVisible calls the computed makes while it maps over the layers.
RECURSIVE SyncVisibility(_, _, _, _)
SyncVisibility(store, ls, resolution, i) ==
  IF i > Len(ls) THEN store
  ELSE LET finalVisibility ==
             isAvailable(store, ls[i].layer, resolution) /\ ls[i].visible
       IN SyncVisibility(
            IF store[ls[i].layer].visible # finalVisibility
            THEN setVisible(store, ls[i].layer, finalVisibility)
            ELSE store,
            ls, resolution, i + 1)

layersWithAvailabilityStore(store, ls, resolution) ==
  IF resolution = NULL THEN store ELSE SyncVisibility(store, ls, resolution, 1)

\* ------------------------------------------ LayerManager: basemap helpers
RECURSIVE SetVisibleEach(_, _, _, _)
SetVisibleEach(store, basemaps, activeId, i) ==
  IF i > Len(basemaps) THEN store
  ELSE SetVisibleEach(
         setVisible(store, basemaps[i].layer, basemaps[i].id = activeId),
         basemaps, activeId, i + 1)

\* Mutant: shows the active basemap and forgets to hide the others.
RECURSIVE ShowActiveEach(_, _, _, _)
ShowActiveEach(store, basemaps, activeId, i) ==
  IF i > Len(basemaps) THEN store
  ELSE ShowActiveEach(
         IF basemaps[i].id = activeId
         THEN setVisible(store, basemaps[i].layer, TRUE) ELSE store,
         basemaps, activeId, i + 1)

updateBaseMapVisibilityShowOnly(store, basemaps, activeId) ==
  ShowActiveEach(store, basemaps, activeId, 1)

updateBaseMapVisibility(store, basemaps, activeId) ==
  SetVisibleEach(store, basemaps, activeId, 1)

\* current.filter((x) => x.id !== id), for basemaps and overlays alike
FilterOutId(current, id) ==
  LET keep(x) == x.id # id IN SelectSeq(current, keep)

\* currentLayers.map((l) => (l.id === id ? { ...l, visible: visible } : l))
MapVisible(currentLayers, id, visible) ==
  [i \in 1..Len(currentLayers) |->
     IF currentLayers[i].id = id
     THEN [currentLayers[i] EXCEPT !.visible = visible]
     ELSE currentLayers[i]]

NoEvent == [handler |-> "none", id |-> "", isAvailable |-> FALSE, checked |-> FALSE]

\* ------------------------------------------------------------------ Init
\* The state after the LayerManager and MapPanel constructors have run: both
\* initialisations are suspended at their first await, the three effects are
\* created and scheduled for their first run, the view is not initialised.
Init ==
  /\ ol = [k \in Slots |-> NotCreated]
  /\ currentResolution = NULL
  /\ availableBaseMaps = <<>>
  /\ activeBaseMapId = "pdok-brt"
  /\ layers = <<>>
  /\ lwaValue = <<>>
  /\ lwaDirty = TRUE
  /\ basePc = "osm"
  /\ baseMaps = <<>>
  /\ overlayPc = "tileMatrixSet"
  /\ bagResolutions = <<>>
  /\ tileMatrixSet = <<>>
  /\ requests = <<"tileMatrixSets">>
  /\ mapInitialized = FALSE
  /\ mapLayers = <<>>
  /\ timer = "unset"
  /\ effectDirty = [e \in Effects |-> TRUE]
  /\ effectDeps = [e \in Effects |-> {}]
  /\ event = NoEvent
  /\ calls = 0
  /\ outcome = [a \in Awaited |-> "unsettled"]
  /\ bagCreateLayer = "pending"
  /\ tiles = <<>>
  /\ storage = Absent
  /\ splitSizes = getSavedSizes(Absent)

\* ------------------------------------- LayerManager.initializeBaseMapsAsync
\* await osmLayerService.createLayer() resumes; OSM is pushed and the BRT
\* request starts.
OsmLayerCreated ==
  /\ basePc = "osm"
  /\ ol' = Construct(ol, SlotOf("osm"), NewLayer("osm", TRUE, 0, Infinity))
  /\ baseMaps' = Append(baseMaps, [id |-> "osm", layer |-> SlotOf("osm")])
  /\ basePc' = "pdok-brt"
  /\ event' = NoEvent
  /\ UNCHANGED <<calls, tiles, appVars>>
  /\ UNCHANGED <<lmVars, lwaValue, lwaDirty, overlayPc, bagResolutions,
                 tileMatrixSet, requests, outcome, bagCreateLayer, panelVars,
                 effectDirty, effectDeps>>

\* brtLayerService.createLayer('standaard') resolves.
BrtLayerCreated ==
  /\ basePc = "pdok-brt"
  /\ ol' = Construct(ol, SlotOf("pdok-brt"), NewLayer("pdok-brt", TRUE, 0, Infinity))
  /\ baseMaps' = Append(baseMaps, [id |-> "pdok-brt", layer |-> SlotOf("pdok-brt")])
  /\ basePc' = "luchtfoto"
  /\ Settled("pdok-brt", "fulfilled")
  /\ event' = NoEvent
  /\ UNCHANGED <<calls, tiles, appVars>>
  /\ UNCHANGED <<lmVars, lwaValue, lwaDirty, overlayPc, bagResolutions,
                 tileMatrixSet, requests, bagCreateLayer, panelVars, effectDirty,
                 effectDeps>>

\* Mutant: the catch swallows the BRT failure and keeps the active id.
BrtLayerFailedKeepsActive ==
  /\ basePc = "pdok-brt"
  /\ basePc' = "luchtfoto"
  /\ Settled("pdok-brt", "rejected")
  /\ event' = NoEvent
  /\ UNCHANGED <<calls, tiles, appVars>>
  /\ UNCHANGED <<ol, lmVars, lwaValue, lwaDirty, baseMaps, overlayPc, bagResolutions,
                 tileMatrixSet, requests, bagCreateLayer, panelVars, effectDirty,
                 effectDeps>>

\* brtLayerService.createLayer rejects: catch sets the active id to 'osm'.
BrtLayerFailed ==
  /\ basePc = "pdok-brt"
  /\ activeBaseMapId' = "osm"
  /\ effectDirty' = IF activeBaseMapId # "osm" THEN Notify({"activeBaseMap"})
                    ELSE effectDirty
  /\ basePc' = "luchtfoto"
  /\ Settled("pdok-brt", "rejected")
  /\ event' = NoEvent
  /\ UNCHANGED <<calls, tiles, appVars>>
  /\ UNCHANGED <<ol, currentResolution, availableBaseMaps, layers, lwaValue,
                 lwaDirty, baseMaps, overlayPc, bagResolutions, tileMatrixSet,
                 requests, bagCreateLayer, panelVars, effectDeps>>

\* Mutant: the tail of initializeBaseMapsAsync also resets the overlays.
FinishBaseMapsClearsLayers(store, list) ==
  /\ availableBaseMaps' = list
  /\ layers' = <<>>
  /\ lwaDirty' = TRUE
  /\ ol' = updateBaseMapVisibility(store, list, activeBaseMapId)
  /\ effectDirty' = Notify({"availableBaseMaps", "layers"})
  /\ baseMaps' = list
  /\ basePc' = "done"
  /\ event' = NoEvent
  /\ UNCHANGED <<calls, tiles, appVars>>
  /\ UNCHANGED <<currentResolution, activeBaseMapId, lwaValue,
                 overlayPc, bagResolutions, tileMatrixSet, requests, bagCreateLayer,
                 panelVars, effectDeps>>

\* The tail of initializeBaseMapsAsync once the Luchtfoto request has settled:
\* _availableBaseMaps.set(baseMaps); updateBaseMapVisibility().
FinishBaseMaps(store, list) ==
  /\ availableBaseMaps' = list
  /\ ol' = updateBaseMapVisibility(store, list, activeBaseMapId)
  /\ effectDirty' = Notify({"availableBaseMaps"})
  /\ baseMaps' = list
  /\ basePc' = "done"
  /\ event' = NoEvent
  /\ UNCHANGED <<calls, tiles, appVars>>
  /\ UNCHANGED <<currentResolution, activeBaseMapId, layers, lwaValue, lwaDirty,
                 overlayPc, bagResolutions, tileMatrixSet, requests, bagCreateLayer,
                 panelVars, effectDeps>>

\* luchtfotoLayerService.createLayer() resolves (the layer is built invisible).
LuchtfotoLayerCreated ==
  /\ basePc = "luchtfoto"
  /\ Settled("luchtfoto", "fulfilled")
  /\ FinishBaseMaps(
       Construct(ol, SlotOf("luchtfoto"), NewLayer("luchtfoto", FALSE, 0, Infinity)),
       Append(baseMaps, [id |-> "luchtfoto", layer |-> SlotOf("luchtfoto")]))

LuchtfotoLayerFailed ==
  /\ basePc = "luchtfoto"
  /\ Settled("luchtfoto", "rejected")
  /\ FinishBaseMaps(ol, baseMaps)

\* ------------- LayerManager.initializeDefaultOverlayAsync / BagLayerService
\* The tail of initializeDefaultOverlayAsync: this._layers.set(overlayMaps).
FinishOverlays(overlayMaps) ==
  /\ layers' = overlayMaps
  /\ lwaDirty' = TRUE
  /\ effectDirty' = Notify({"layers"})
  /\ overlayPc' = "done"
  /\ event' = NoEvent
  /\ UNCHANGED <<calls, tiles, appVars>>
  /\ UNCHANGED <<currentResolution, availableBaseMaps, activeBaseMapId, lwaValue,
                 basePc, baseMaps, panelVars, effectDeps>>

\* getTileMatrixSet answers; createLayer goes on to request the style.
TileMatrixSetFetched(tms) ==
  /\ overlayPc = "tileMatrixSet"
  /\ tileMatrixSet' = tms
  /\ requests' = Append(requests, "styles")
  /\ overlayPc' = "style"
  /\ Settled("tileMatrixSets", "fulfilled")
  /\ event' = NoEvent
  /\ UNCHANGED <<calls, tiles, appVars>>
  /\ UNCHANGED <<ol, lmVars, lwaValue, lwaDirty, basePc, baseMaps, bagResolutions,
                 bagCreateLayer, panelVars, effectDirty, effectDeps>>

\* Mutant: createLayer goes on to the style although getTileMatrixSet
\* returned null.
TileMatrixSetFailedGoesOn ==
  /\ overlayPc = "tileMatrixSet"
  /\ tileMatrixSet' = <<>>
  /\ requests' = Append(requests, "styles")
  /\ overlayPc' = "style"
  /\ Settled("tileMatrixSets", "rejected")
  /\ event' = NoEvent
  /\ UNCHANGED <<calls, tiles, appVars>>
  /\ UNCHANGED <<ol, lmVars, lwaValue, lwaDirty, basePc, baseMaps, bagResolutions,
                 bagCreateLayer, panelVars, effectDirty, effectDeps>>

\* getTileMatrixSet catches an HTTP error and returns null: createLayer throws,
\* initializeDefaultOverlayAsync catches and sets no overlays.
TileMatrixSetFailed ==
  /\ overlayPc = "tileMatrixSet"
  /\ Settled("tileMatrixSets", "rejected")
  /\ bagCreateLayer' = "Error: Failed to fetch TileMatrixSet"
  /\ FinishOverlays(<<>>)
  /\ UNCHANGED <<ol, bagResolutions, tileMatrixSet, requests>>

\* getStyleJson answers: createLayer resolves, the layer is built and becomes the only overlay.
StyleFetched ==
  /\ overlayPc = "style"
  /\ tileMatrixSet' = <<>>
  /\ Settled("styles", "fulfilled")
  /\ bagCreateLayer' = "layer"
  /\ FinishOverlays(<<[id |-> "bag", visible |-> FALSE, layer |-> SlotOf("bag")]>>)
  /\ UNCHANGED requests
  /\ bagResolutions' = GridResolutions(tileMatrixSet)
  /\ ol' = Construct(ol, SlotOf("bag"), buildVectorTileLayer(tileMatrixSet))

\* getStyleJson catches an HTTP error and returns null: createLayer throws.
StyleFailed ==
  /\ overlayPc = "style"
  /\ tileMatrixSet' = <<>>
  /\ Settled("styles", "rejected")
  /\ bagCreateLayer' = "Error: Failed to fetch style JSON"
  /\ FinishOverlays(<<>>)
  /\ UNCHANGED <<ol, bagResolutions, requests>>

\* The BAG source asks tileUrlFunction for the URL of a tile, once
\* buildVectorTileLayer has created the source.
LoadTile(tileCoord) ==
  /\ bagCreateLayer = "layer"
  /\ Len(tiles) < MaxTiles
  /\ tiles' = Append(tiles, [tileCoord |-> tileCoord, url |-> tileUrlFunction(tileCoord)])
  /\ event' = NoEvent
  /\ UNCHANGED <<calls, appVars>>
  /\ UNCHANGED <<ol, lmVars, lwaValue, lwaDirty, initVars, panelVars, effectDirty,
                 effectDeps>>

\* ------------------------------------------------- LayerManager: methods
setCurrentResolution(resolution) ==
  /\ currentResolution' = resolution
  /\ lwaDirty' = (lwaDirty \/ currentResolution # resolution)
  /\ Called
  /\ UNCHANGED <<tiles, appVars>>
  /\ event' = NoEvent
  /\ UNCHANGED <<ol, availableBaseMaps, activeBaseMapId, layers, lwaValue,
                 initVars, panelVars, effectDirty, effectDeps>>

\* A read of the computed while it is stale re-evaluates it.
ReadLayersWithAvailability ==
  /\ lwaDirty
  /\ lwaValue' = AvailabilityOf(ol, layers, currentResolution)
  /\ ol' = layersWithAvailabilityStore(ol, layers, currentResolution)
  /\ lwaDirty' = FALSE
  /\ event' = NoEvent
  /\ UNCHANGED <<calls, tiles, appVars>>
  /\ UNCHANGED <<lmVars, initVars, panelVars, effectDirty, effectDeps>>

setActiveBaseMap(id) ==
  /\ activeBaseMapId' = id
  /\ ol' = updateBaseMapVisibility(ol, availableBaseMaps, id)
  /\ effectDirty' = IF activeBaseMapId # id THEN Notify({"activeBaseMap"})
                    ELSE effectDirty
  /\ Called
  /\ UNCHANGED <<tiles, appVars>>
  /\ event' = NoEvent
  /\ UNCHANGED <<currentResolution, availableBaseMaps, layers, lwaValue, lwaDirty,
                 initVars, panelVars, effectDeps>>

addBaseMap(id) ==
  /\ LET layer == FreshSlot
         list == Append(availableBaseMaps, [id |-> id, layer |-> layer])
     IN /\ availableBaseMaps' = list
        /\ ol' = updateBaseMapVisibility(
                   Construct(ol, layer, NewLayer(id, TRUE, 0, Infinity)),
                   list, activeBaseMapId)
  /\ effectDirty' = Notify({"availableBaseMaps"})
  /\ Called
  /\ UNCHANGED <<tiles, appVars>>
  /\ event' = NoEvent
  /\ UNCHANGED <<currentResolution, activeBaseMapId, layers, lwaValue, lwaDirty,
                 initVars, panelVars, effectDeps>>

\* Mutant: the guard against removing the active basemap is missing.
removeBaseMapUnguarded(id) ==
  /\ availableBaseMaps' = FilterOutId(availableBaseMaps, id)
  /\ effectDirty' = Notify({"availableBaseMaps"})
  /\ Called
  /\ UNCHANGED <<tiles, appVars>>
  /\ event' = NoEvent
  /\ UNCHANGED <<ol, currentResolution, activeBaseMapId, layers, lwaValue,
                 lwaDirty, initVars, panelVars, effectDeps>>

removeBaseMap(id) ==
  /\ IF activeBaseMapId = id
     THEN UNCHANGED <<availableBaseMaps, effectDirty>>
     ELSE /\ availableBaseMaps' = FilterOutId(availableBaseMaps, id)
          /\ effectDirty' = Notify({"availableBaseMaps"})
  /\ Called
  /\ UNCHANGED <<tiles, appVars>>
  /\ event' = NoEvent
  /\ UNCHANGED <<ol, currentResolution, activeBaseMapId, layers, lwaValue,
                 lwaDirty, initVars, panelVars, effectDeps>>

\* The caller's layerData.layer is a newly constructed layer without an 'id'.
addLayer(id, visible) ==
  /\ ol' = Construct(ol, FreshSlot, NewLayer("", TRUE, 0, Infinity))
  /\ layers' = Append(layers, [id |-> id, visible |-> visible, layer |-> FreshSlot])
  /\ lwaDirty' = TRUE
  /\ effectDirty' = Notify({"layers"})
  /\ Called
  /\ UNCHANGED <<tiles, appVars>>
  /\ event' = NoEvent
  /\ UNCHANGED <<currentResolution, availableBaseMaps, activeBaseMapId, lwaValue,
                 initVars, panelVars, effectDeps>>

\* Mutant: the method also sets the map layer's visibility itself, as the
\* earlier revision of the service did.
toggleLayerVisibilityAndMap(id, visible) ==
  /\ layers' = MapVisible(layers, id, visible)
  /\ ol' = IF \E i \in 1..Len(layers) : layers[i].id = id
           THEN setVisible(ol, layers[CHOOSE i \in 1..Len(layers) :
                                        /\ layers[i].id = id
                                        /\ \A j \in 1..(i - 1) : layers[j].id # id].layer,
                           visible)
           ELSE ol
  /\ lwaDirty' = TRUE
  /\ effectDirty' = Notify({"layers"})
  /\ UNCHANGED <<currentResolution, availableBaseMaps, activeBaseMapId,
                 lwaValue, initVars, panelVars, effectDeps>>

toggleLayerVisibility(id, visible) ==
  /\ layers' = MapVisible(layers, id, visible)
  /\ lwaDirty' = TRUE
  /\ effectDirty' = Notify({"layers"})
  /\ UNCHANGED <<ol, currentResolution, availableBaseMaps, activeBaseMapId,
                 lwaValue, initVars, panelVars, effectDeps>>

ToggleLayerVisibility(id, visible) ==
  /\ toggleLayerVisibility(id, visible)
  /\ Called
  /\ UNCHANGED <<tiles, appVars>>
  /\ event' = NoEvent

removeLayer(id) ==
  /\ layers' = FilterOutId(layers, id)
  /\ lwaDirty' = TRUE
  /\ effectDirty' = Notify({"layers"})
  /\ Called
  /\ UNCHANGED <<tiles, appVars>>
  /\ event' = NoEvent
  /\ UNCHANGED <<ol, currentResolution, availableBaseMaps, activeBaseMapId,
                 lwaValue, initVars, panelVars, effectDeps>>

\* ------------------------------------------------ TextPanel.onToggleOverlay
\* The handler is called with an entry of the list the template rendered (the
\* value of layersWithAvailability it last read) and the checkbox state the
\* click produced.
\* Mutant: the availability guard is missing.
onToggleOverlayUnguarded(i, checked) ==
  /\ i \in 1..Len(lwaValue)
  /\ Called
  /\ UNCHANGED <<tiles, appVars>>
  /\ event' = [handler |-> "onToggleOverlay", id |-> lwaValue[i].id,
               isAvailable |-> lwaValue[i].isAvailable, checked |-> checked]
  /\ toggleLayerVisibility(lwaValue[i].id, checked)

onToggleOverlay(i, checked) ==
  /\ i \in 1..Len(lwaValue)
  /\ Called
  /\ UNCHANGED <<tiles, appVars>>
  /\ IF ~lwaValue[i].isAvailable
     THEN /\ event' = [handler |-> "onToggleOverlay", id |-> lwaValue[i].id,
                       isAvailable |-> FALSE, checked |-> FALSE]
          /\ UNCHANGED <<ol, lmVars, lwaValue, lwaDirty, initVars, panelVars,
                         effectDirty, effectDeps>>
     ELSE /\ event' = [handler |-> "onToggleOverlay", id |-> lwaValue[i].id,
                       isAvailable |-> TRUE, checked |-> checked]
          /\ toggleLayerVisibility(lwaValue[i].id, checked)

\* --------------------------------------------------------------- MapPanel
\* Collection.insertAt(index, elem), index counted from 0.
insertAt(array, index, elem) ==
  SubSeq(array, 1, index) \o <<elem>> \o SubSeq(array, index + 1, Len(array))

\* Mutant: the basemap is pushed on top of the collection.
insertBaseMapOnTop(array, layer) == Append(array, layer)

\* this.map.getLayers().insertAt(0, basemap.layer)
insertBaseMap(array, layer) == insertAt(array, 0, layer)

\* this.map.getLayers().getArray().find((l) => l.get('id') === id)
existingLayer(store, array, id) ==
  \E k \in 1..Len(array) : store[array[k]].id = id

\* basemaps.forEach: add every basemap whose id no layer of the map carries.
\* st is the map's layer array together with the layer store.
RECURSIVE AddBaseMapsToMap(_, _, _)
AddBaseMapsToMap(st, basemaps, i) ==
  IF i > Len(basemaps) THEN st
  ELSE LET basemap == basemaps[i]
       IN AddBaseMapsToMap(
            IF ~existingLayer(st.store, st.map, basemap.id)
            THEN [map |-> insertBaseMap(st.map, basemap.layer),
                  store |-> [st.store EXCEPT ![basemap.layer].isBaseMap = TRUE,
                                             ![basemap.layer].id = basemap.id]]
            ELSE st,
            basemaps, i + 1)

\* First pass of effect 3: drop the overlays of the map that the service no
\* longer lists.
RemoveStaleOverlays(store, array, overlayLayers) ==
  LET keep(l) ==
        ~(/\ store[l].id # ""
          /\ ~store[l].isBaseMap
          /\ ~\E a \in 1..Len(overlayLayers) : overlayLayers[a].id = store[l].id)
  IN SelectSeq(array, keep)

\* Second pass of effect 3: this.map.addLayer for every id the map lacks.
RECURSIVE AddOverlaysToMap(_, _, _)
AddOverlaysToMap(st, overlayLayers, i) ==
  IF i > Len(overlayLayers) THEN st
  ELSE LET appLayer == overlayLayers[i]
       IN AddOverlaysToMap(
            IF ~existingLayer(st.store, st.map, appLayer.id)
            THEN [map |-> Append(st.map, appLayer.layer),
                  store |-> [st.store EXCEPT ![appLayer.layer].id = appLayer.id]]
            ELSE st,
            overlayLayers, i + 1)

\* An effect run: the effect is clean afterwards and depends on exactly the
\* signals it read.  mapInitialized is a plain field, so the early return
\* reads no signal at all.
EffectRan(e, deps) ==
  /\ effectDirty' = [effectDirty EXCEPT ![e] = FALSE]
  /\ effectDeps' = [effectDeps EXCEPT ![e] = deps]
  /\ event' = NoEvent
  /\ UNCHANGED <<calls, tiles, appVars>>

\* Mutant: effect 1 without its early return.
Effect1Unguarded ==
  /\ effectDirty[1]
  /\ LET st == AddBaseMapsToMap([map |-> mapLayers, store |-> ol],
                                availableBaseMaps, 1)
     IN /\ EffectRan(1, {"availableBaseMaps"})
        /\ mapLayers' = st.map
        /\ ol' = st.store
  /\ UNCHANGED <<lmVars, lwaValue, lwaDirty, initVars, mapInitialized, timer>>

\* Effect 1: reactively add basemaps.
Effect1 ==
  /\ effectDirty[1]
  /\ IF ~mapInitialized
     THEN /\ EffectRan(1, {})
          /\ UNCHANGED <<ol, mapLayers>>
     ELSE LET st == AddBaseMapsToMap([map |-> mapLayers, store |-> ol],
                                     availableBaseMaps, 1)
          IN /\ EffectRan(1, {"availableBaseMaps"})
             /\ mapLayers' = st.map
             /\ ol' = st.store
  /\ UNCHANGED <<lmVars, lwaValue, lwaDirty, initVars, mapInitialized, timer>>

\* Effect 2: reactively update basemap visibility.
Effect2 ==
  /\ effectDirty[2]
  /\ IF ~mapInitialized
     THEN /\ EffectRan(2, {})
          /\ UNCHANGED ol
     ELSE /\ EffectRan(2, {"activeBaseMap", "availableBaseMaps"})
          /\ ol' = SetVisibleEach(ol, availableBaseMaps, activeBaseMapId, 1)
  /\ UNCHANGED <<lmVars, lwaValue, lwaDirty, initVars, panelVars>>

\* Effect 3: synchronise the overlays of the map with layers().
Effect3 ==
  /\ effectDirty[3]
  /\ IF ~mapInitialized
     THEN /\ EffectRan(3, {})
          /\ UNCHANGED <<ol, mapLayers>>
     ELSE LET kept == RemoveStaleOverlays(ol, mapLayers, layers)
              st == AddOverlaysToMap([map |-> kept, store |-> ol], layers, 1)
          IN /\ EffectRan(3, {"layers"})
             /\ mapLayers' = st.map
             /\ ol' = st.store
  /\ UNCHANGED <<lmVars, lwaValue, lwaDirty, initVars, mapInitialized, timer>>

\* ngAfterViewInit: create the map, mark it initialised, start the 100 ms timer.
ngAfterViewInit ==
  /\ ~mapInitialized
  /\ mapInitialized' = TRUE
  /\ mapLayers' = <<>>
  /\ timer' = "pending"
  /\ event' = NoEvent
  /\ UNCHANGED <<calls, tiles, appVars>>
  /\ UNCHANGED <<ol, lmVars, lwaValue, lwaDirty, initVars, effectDirty, effectDeps>>

\* The timer callback: add the basemaps by hand and set their visibility, if
\* there are any.  It runs outside any effect, so it tracks nothing.
FallbackTimer ==
  /\ timer = "pending"
  /\ timer' = "fired"
  /\ IF Len(availableBaseMaps) > 0
     THEN LET st == AddBaseMapsToMap([map |-> mapLayers, store |-> ol],
                                     availableBaseMaps, 1)
          IN /\ mapLayers' = st.map
             /\ ol' = SetVisibleEach(st.store, availableBaseMaps, activeBaseMapId, 1)
     ELSE UNCHANGED <<ol, mapLayers>>
  /\ event' = NoEvent
  /\ UNCHANGED <<calls, tiles, appVars>>
  /\ UNCHANGED <<lmVars, lwaValue, lwaDirty, initVars, mapInitialized,
                 effectDirty, effectDeps>>

\* ------------------------------------------------------------------ App
\* App.onDragEnd: strings become numbers through parseFloat, the signal is set
\* and the sizes are saved.
onDragEnd(sizes) ==
  LET newSizes ==
        JsArray([i \in 1..Len(sizes) |->
                   IF typeof(sizes[i]) = "string" THEN parseFloat(sizes[i].text)
                   ELSE sizes[i]])
  IN /\ Called
     /\ splitSizes' = newSizes
     /\ storage' = stringify(newSizes)
     /\ event' = NoEvent
     /\ UNCHANGED <<ol, lmVars, lwaValue, lwaDirty, initVars, panelVars, effectDirty,
                    effectDeps, tiles>>

\* Something other than this version of the application writes the item.
StorageWritten(text) ==
  /\ Called
  /\ storage' = text
  /\ event' = NoEvent
  /\ UNCHANGED <<ol, lmVars, lwaValue, lwaDirty, initVars, panelVars, effectDirty,
                 effectDeps, tiles, splitSizes>>

\* The page is loaded again: localStorage survives, everything else is
\* constructed anew, and the App's field initialiser calls getSavedSizes.
Reload ==
  /\ Called
  /\ splitSizes' = getSavedSizes(storage)
  /\ UNCHANGED storage
  /\ ol' = [k \in Slots |-> NotCreated]
  /\ currentResolution' = NULL
  /\ availableBaseMaps' = <<>>
  /\ activeBaseMapId' = "pdok-brt"
  /\ layers' = <<>>
  /\ lwaValue' = <<>>
  /\ lwaDirty' = TRUE
  /\ basePc' = "osm"
  /\ baseMaps' = <<>>
  /\ overlayPc' = "tileMatrixSet"
  /\ bagResolutions' = <<>>
  /\ tileMatrixSet' = <<>>
  /\ requests' = <<"tileMatrixSets">>
  /\ mapInitialized' = FALSE
  /\ mapLayers' = <<>>
  /\ timer' = "unset"
  /\ effectDirty' = [e \in Effects |-> TRUE]
  /\ effectDeps' = [e \in Effects |-> {}]
  /\ event' = NoEvent
  /\ outcome' = [a \in Awaited |-> "unsettled"]
  /\ bagCreateLayer' = "pending"
  /\ tiles' = <<>>

\* ------------------------------------------------------------------ Next
Next ==
  \/ \E sizes \in DragSizes : onDragEnd(sizes)
  \/ \E text \in StoredTexts : StorageWritten(text)
  \/ Reload
  \/ \E tileCoord \in TileCoords : LoadTile(tileCoord)
  \/ OsmLayerCreated
  \/ BrtLayerCreated
  \/ BrtLayerFailed
  \/ LuchtfotoLayerCreated
  \/ LuchtfotoLayerFailed
  \/ \E tms \in TileMatrixSets : TileMatrixSetFetched(tms)
  \/ TileMatrixSetFailed
  \/ StyleFetched
  \/ StyleFailed
  \/ \E r \in ViewResolutions : setCurrentResolution(r)
  \/ ReadLayersWithAvailability
  \/ \E id \in BaseMapIds : setActiveBaseMap(id)
  \/ \E id \in NewBaseMapIds : addBaseMap(id)
  \/ \E id \in BaseMapIds : removeBaseMap(id)
  \/ \E id \in OverlayIds, visible \in BOOLEAN : addLayer(id, visible)
  \/ \E id \in OverlayIds, visible \in BOOLEAN : ToggleLayerVisibility(id, visible)
  \/ \E id \in OverlayIds : removeLayer(id)
  \/ \E i \in 1..(1 + MaxCalls), checked \in BOOLEAN : onToggleOverlay(i, checked)
  \/ ngAfterViewInit
  \/ Effect1
  \/ Effect2
  \/ Effect3
  \/ FallbackTimer

Spec == Init /\ [][Next]_vars

\* The basemap half of the program: basemap initialisation, the basemap
\* methods, and the parts of MapPanel that put basemaps on the map.
NextBaseMaps ==
  \/ OsmLayerCreated
  \/ BrtLayerCreated
  \/ BrtLayerFailed
  \/ LuchtfotoLayerCreated
  \/ LuchtfotoLayerFailed
  \/ \E id \in BaseMapIds : setActiveBaseMap(id)
  \/ \E id \in NewBaseMapIds : addBaseMap(id)
  \/ \E id \in BaseMapIds : removeBaseMap(id)
  \/ ngAfterViewInit
  \/ Effect1
  \/ Effect2
  \/ FallbackTimer

SpecBaseMaps == Init /\ [][NextBaseMaps]_vars

\* The overlay half: overlay initialisation, the resolution, the computed
\* layersWithAvailability, the overlay methods and the TextPanel toggle.
NextOverlays ==
  \/ \E tms \in TileMatrixSets : TileMatrixSetFetched(tms)
  \/ TileMatrixSetFailed
  \/ StyleFetched
  \/ StyleFailed
  \/ \E r \in ViewResolutions : setCurrentResolution(r)
  \/ ReadLayersWithAvailability
  \/ \E id \in OverlayIds, visible \in BOOLEAN : addLayer(id, visible)
  \/ \E id \in OverlayIds, visible \in BOOLEAN : ToggleLayerVisibility(id, visible)
  \/ \E id \in OverlayIds : removeLayer(id)
  \/ \E i \in 1..(1 + MaxCalls), checked \in BOOLEAN : onToggleOverlay(i, checked)
  \/ ngAfterViewInit

SpecOverlays == Init /\ [][NextOverlays]_vars

\* The map's layer collection: both initialisations, the methods that change
\* the two lists, and everything in MapPanel that inserts or removes layers.
\* Desired visibility and the resolution window play no part in it, so one
\* tile matrix set and one value of `visible` stand for all.
NextMap ==
  \/ OsmLayerCreated
  \/ BrtLayerCreated
  \/ BrtLayerFailed
  \/ LuchtfotoLayerCreated
  \/ LuchtfotoLayerFailed
  \/ TileMatrixSetFetched(TileMatrices(MaxLevels, TRUE))
  \/ TileMatrixSetFailed
  \/ StyleFetched
  \/ StyleFailed
  \/ \E id \in NewBaseMapIds : addBaseMap(id)
  \/ \E id \in BaseMapIds : removeBaseMap(id)
  \/ \E id \in OverlayIds : addLayer(id, TRUE)
  \/ \E id \in OverlayIds : removeLayer(id)
  \/ ngAfterViewInit
  \/ Effect1
  \/ Effect3
  \/ FallbackTimer

SpecMap == Init /\ [][NextMap]_vars

\* The BAG factory and its tile source.
NextTiles ==
  \/ \E tms \in TileMatrixSets : TileMatrixSetFetched(tms)
  \/ TileMatrixSetFailed
  \/ StyleFetched
  \/ StyleFailed
  \/ \E tileCoord \in TileCoords : LoadTile(tileCoord)

SpecTiles == Init /\ [][NextTiles]_vars

\* The split-pane layout: the saved sizes are written by a drag or from
\* outside, and read when the page is loaded.
NextLayout ==
  \/ \E sizes \in DragSizes : onDragEnd(sizes)
  \/ \E text \in StoredTexts : StorageWritten(text)
  \/ Reload

SpecLayout == Init /\ [][NextLayout]_vars

\* What the runtime schedules by itself: pending HTTP requests settle, the view
\* is initialised, dirty effects run, the timer fires and the template re-reads
\* a stale computed.  Method calls and clicks are never forced.
Fairness ==
  /\ WF_vars(OsmLayerCreated)
  /\ WF_vars(BrtLayerCreated \/ BrtLayerFailed)
  /\ WF_vars(LuchtfotoLayerCreated \/ LuchtfotoLayerFailed)
  /\ WF_vars(TileMatrixSetFailed \/ \E tms \in TileMatrixSets : TileMatrixSetFetched(tms))
  /\ WF_vars(StyleFailed \/ StyleFetched)
  /\ WF_vars(ReadLayersWithAvailability)
  /\ WF_vars(ngAfterViewInit)
  /\ WF_vars(Effect1)
  /\ WF_vars(Effect2)
  /\ WF_vars(Effect3)
  /\ WF_vars(FallbackTimer)

FairSpec == Spec /\ Fairness

\* The program left to itself: everything the runtime schedules and nothing
\* else.  No code of the repository calls the LayerManager methods except the
\* two TextPanel handlers, which wait for a click.  Every behaviour of
\* FairSpecProgram is a behaviour of FairSpec.
NextProgram ==
  \/ OsmLayerCreated
  \/ BrtLayerCreated
  \/ BrtLayerFailed
  \/ LuchtfotoLayerCreated
  \/ LuchtfotoLayerFailed
  \/ \E tms \in TileMatrixSets : TileMatrixSetFetched(tms)
  \/ TileMatrixSetFailed
  \/ StyleFetched
  \/ StyleFailed
  \/ ReadLayersWithAvailability
  \/ ngAfterViewInit
  \/ Effect1
  \/ Effect2
  \/ Effect3
  \/ FallbackTimer

SpecProgram == Init /\ [][NextProgram]_vars
FairSpecProgram == SpecProgram /\ Fairness

\* ================================================================ claims
IsBaseMapAvailable(id) ==
  \E i \in 1..Len(availableBaseMaps) : availableBaseMaps[i].id = id

HasOverlay(id) == \E i \in 1..Len(layers) : layers[i].id = id

\* A layer carrying this id is in the map's layer collection.
OnMap(id) == existingLayer(ol, mapLayers, id)

\* ---------------------------------------------------------------- C1
\* C1: once layersWithAvailability has been read (the computed is up to date),
\* every overlay's map-layer visibility equals (desired visible AND
\* isAvailable), also while no resolution has been set.
C1_VisibilityFollowsDesiredAndAvailable ==
  ~lwaDirty =>
    \A i \in 1..Len(layers) :
      ol[layers[i].layer].visible = (layers[i].visible /\ lwaValue[i].isAvailable)

\* ---------------------------------------------------------------- C2
\* C2: once the map has been initialised, currentResolution eventually becomes
\* non-null.
C2_ResolutionEventuallyReported ==
  mapInitialized ~> (currentResolution # NULL)

\* ---------------------------------------------------------------- C3
\* C3: once basemap initialisation has completed, each basemap in
\* availableBaseMaps is visible if and only if its id equals activeBaseMap.
C3_BaseMapVisibleIffActive ==
  basePc = "done" =>
    \A i \in 1..Len(availableBaseMaps) :
      ol[availableBaseMaps[i].layer].visible
        <=> (availableBaseMaps[i].id = activeBaseMapId)

\* Initialisation is over, the user has switched to a basemap that is listed
\* twice, and a basemap that is not active is listed too.
C3_Witness ==
  /\ basePc = "done"
  /\ activeBaseMapId = "luchtfoto"
  /\ \E i, j \in 1..Len(availableBaseMaps) :
       /\ i # j
       /\ availableBaseMaps[i].id = "luchtfoto"
       /\ availableBaseMaps[j].id = "luchtfoto"
  /\ IsBaseMapAvailable("osm")

\* ---------------------------------------------------------------- C4
\* The basemaps of `current` whose id is not `id`, in their order.
RECURSIVE Others(_, _)
Others(current, id) ==
  IF current = <<>> THEN <<>>
  ELSE IF Head(current).id = id THEN Others(Tail(current), id)
       ELSE <<Head(current)>> \o Others(Tail(current), id)

\* C4: removeBaseMap(id) leaves the list and the active id unchanged when id is
\* the active basemap; otherwise it removes exactly the basemaps with that id,
\* keeps the others in their order and leaves the active id unchanged.
C4_RemoveBaseMapSparesActive ==
  [][\A id \in BaseMapIds :
       removeBaseMap(id) =>
         /\ activeBaseMapId' = activeBaseMapId
         /\ IF id = activeBaseMapId
            THEN availableBaseMaps' = availableBaseMaps
            ELSE availableBaseMaps' = Others(availableBaseMaps, id)]_vars

\* Initialisation always lists 'osm'; it is gone, so removeBaseMap('osm') has
\* acted while another basemap was active, and other basemaps are still listed.
C4_Witness ==
  /\ basePc = "done"
  /\ ~IsBaseMapAvailable("osm")
  /\ Len(availableBaseMaps) >= 1

\* ---------------------------------------------------------------- C5
\* C5: toggleLayerVisibility(id, visible) sets the visible flag of the overlays
\* with that id, leaves every other overlay, the order and length of the list,
\* the basemap state and the resolution unchanged, calls setVisible on no map
\* layer, and changes nothing when no overlay has that id.
C5_ToggleOnlySetsDesired ==
  [][\A id \in OverlayIds, visible \in BOOLEAN :
       toggleLayerVisibility(id, visible) =>
         /\ Len(layers') = Len(layers)
         /\ \A i \in 1..Len(layers) :
              /\ layers'[i].id = layers[i].id
              /\ layers'[i].layer = layers[i].layer
              /\ layers'[i].visible =
                   IF layers[i].id = id THEN visible ELSE layers[i].visible
         /\ availableBaseMaps' = availableBaseMaps
         /\ activeBaseMapId' = activeBaseMapId
         /\ currentResolution' = currentResolution
         /\ \A l \in Slots : ol'[l].visible = ol[l].visible
         /\ (~HasOverlay(id) => layers' = layers)]_vars

\* Two overlays are listed; since the template last read the computed, the
\* desired visibility of one has been toggled and the other is as it was.
C5_Witness ==
  /\ Len(layers) = 2
  /\ Len(lwaValue) = 2
  /\ lwaDirty
  /\ \E i, j \in 1..2 :
       /\ i # j
       /\ lwaValue[i].layer = layers[i].layer
       /\ lwaValue[j].layer = layers[j].layer
       /\ lwaValue[i].visible # layers[i].visible
       /\ lwaValue[j].visible = layers[j].visible

\* ---------------------------------------------------------------- C6
\* C6: onToggleOverlay with a layer whose isAvailable is false forces the
\* checkbox to unchecked and changes no LayerManager state; with isAvailable
\* true the desired visibility of that overlay becomes the checked value.
C6_UnavailableToggleIgnored ==
  [][\A i \in 1..(1 + MaxCalls), checked \in BOOLEAN :
       onToggleOverlay(i, checked) =>
         IF ~lwaValue[i].isAvailable
         THEN /\ event'.checked = FALSE
              /\ layers' = layers
              /\ currentResolution' = currentResolution
              /\ availableBaseMaps' = availableBaseMaps
              /\ activeBaseMapId' = activeBaseMapId
              /\ ol' = ol
         ELSE /\ event'.checked = checked
              /\ \A k \in 1..Len(layers') :
                   layers'[k].id = lwaValue[i].id => layers'[k].visible = checked]_vars

\* The handler has just run for a listed overlay that was not available, with
\* the overlay's desired visibility still off.
C6_Witness ==
  /\ event.handler = "onToggleOverlay"
  /\ ~event.isAvailable
  /\ \E k \in 1..Len(layers) : layers[k].id = event.id /\ ~layers[k].visible

\* ---------------------------------------------------------------- C7
\* C7: once the map has been initialised, every basemap in availableBaseMaps is
\* eventually present in the map's layer collection.
C7_BaseMapsEventuallyOnMap ==
  \A id \in BaseMapIds :
    (mapInitialized /\ IsBaseMapAvailable(id)) ~> OnMap(id)

\* ---------------------------------------------------------------- C8
\* C8: every change of layers() after map initialisation eventually leads to a
\* run of the overlay effect that puts the listed overlays on the map.
C8_OverlaysEventuallyOnMap ==
  \A id \in OverlayIds :
    (mapInitialized /\ HasOverlay(id)) ~> OnMap(id)

\* ---------------------------------------------------------------- C9
\* C9: in the map's layer collection no overlay layer sits at a lower index
\* than a basemap layer.
C9_BaseMapsBehindOverlays ==
  \A i, j \in 1..Len(mapLayers) :
    (i < j /\ ol[mapLayers[j]].isBaseMap) => ol[mapLayers[i]].isBaseMap

\* A basemap and an overlay are on the map, the basemap below, and one more
\* layer besides.
C9_Witness ==
  /\ Len(mapLayers) >= 3
  /\ ol[mapLayers[1]].isBaseMap
  /\ ~ol[mapLayers[Len(mapLayers)]].isBaseMap

\* --------------------------------------------------------------- C10
\* C10: for a tile matrix set with at least 14 levels, among the grid's
\* zoom-level resolutions layersWithAvailability reports the BAG overlay
\* available only at r12.
C10_BagAvailableOnlyAtZ12 ==
  (~lwaDirty /\ Len(bagResolutions) > Z13_INDEX) =>
    \A i \in 1..Len(lwaValue) :
      \A k \in 1..Len(bagResolutions) :
        (/\ lwaValue[i].layer = SlotOf("bag")
         /\ currentResolution = bagResolutions[k]
         /\ lwaValue[i].isAvailable) => k = Z12 + 1

\* --------------------------------------------------------------- C11
\* C11: for every non-null tile coordinate [z, x, y] the BAG tile URL function
\* returns .../tiles/NetherlandsRDNewQuad/12/{y}/{x}?f=mvt, whatever z is, and
\* it returns undefined for a null tile coordinate.
C11_TilesRequestedAtZ12 ==
  \A i \in 1..Len(tiles) :
    LET tileCoord == tiles[i].tileCoord
    IN IF tileCoord = <<>>
       THEN tiles[i].url = <<>>
       ELSE tiles[i].url =
              <<"https://api.pdok.nl/lv/bag/ogc/v1", "tiles", "NetherlandsRDNewQuad",
                12, tileCoord[3], tileCoord[2], "f=mvt">>

\* A URL has been asked for a tile of zoom level 13 whose column and row
\* differ, and for a null coordinate.
C11_Witness ==
  /\ \E i \in 1..Len(tiles) :
       /\ tiles[i].tileCoord # <<>>
       /\ tiles[i].tileCoord[1] = 13
       /\ tiles[i].tileCoord[2] # tiles[i].tileCoord[3]
  /\ \E i \in 1..Len(tiles) : tiles[i].tileCoord = <<>>

\* --------------------------------------------------------------- C12
\* C12: when basemap initialisation has completed after a BRT failure, and
\* nothing has been called from outside, 'pdok-brt' is not in
\* availableBaseMaps, 'osm' is, activeBaseMap is 'osm' and the OSM layer is
\* visible.
C12_BrtFailureFallsBackToOsm ==
  (basePc = "done" /\ outcome["pdok-brt"] = "rejected" /\ calls = 0) =>
    /\ ~IsBaseMapAvailable("pdok-brt")
    /\ IsBaseMapAvailable("osm")
    /\ activeBaseMapId = "osm"
    /\ ol[SlotOf("osm")].visible

\* Initialisation completed after a BRT failure with Luchtfoto loaded, nothing
\* was called, and the map shows the basemaps with their visibility set.
C12_Witness ==
  /\ basePc = "done"
  /\ outcome["pdok-brt"] = "rejected"
  /\ outcome["luchtfoto"] = "fulfilled"
  /\ calls = 0
  /\ OnMap("osm")
  /\ ~effectDirty[2]

\* --------------------------------------------------------------- C13
\* The value is an array of exactly two numbers.
IsTwoNumbers(v) ==
  /\ v.class = "Array"
  /\ Len(v.items) = 2
  /\ \A i \in 1..2 : v.items[i].class = "Number"

\* C13: whatever the localStorage item holds (absent, not valid JSON, or any
\* JSON value), getSavedSizes returns an array of exactly two numbers: the
\* stored array when it is an array of two numbers, [20, 80] otherwise.
C13_SavedSizesValidated ==
  [][Reload =>
       /\ IsTwoNumbers(splitSizes')
       /\ splitSizes' =
            IF storage.kind = "json" /\ IsTwoNumbers(storage.json)
            THEN storage.json
            ELSE JsArray(<<JsNumber(20), JsNumber(80)>>)]_vars

\* --------------------------------------------------------------- C14
\* C14: before ngAfterViewInit has created the map and set mapInitialized, the
\* timer is not running, the layer collection is empty, and no run of an effect
\* or of the timer callback changes the layer collection or a layer.
C14_NoMapAccessBeforeInit ==
  /\ [](~mapInitialized => (timer = "unset" /\ mapLayers = <<>>))
  /\ [][(~mapInitialized /\ (Effect1 \/ Effect2 \/ Effect3 \/ FallbackTimer)) =>
          (mapLayers' = mapLayers /\ ol' = ol)]_vars

\* The three effects have had their first run while the map did not exist yet,
\* with the basemaps already loaded.
C14_Witness ==
  /\ ~mapInitialized
  /\ \A e \in Effects : ~effectDirty[e]
  /\ Len(availableBaseMaps) > 0

\* --------------------------------------------------------------- C15
\* C15: createLayer requests the tile matrix set first; when that request
\* fails it rejects with its own error and the style is never requested; when
\* the style request fails it rejects with its own error; a layer is returned,
\* and built, only when both requests succeeded.
C15_CreateLayerFailsClosed ==
  /\ requests[1] = "tileMatrixSets"
  /\ Len(requests) = 2 =>
       (requests[2] = "styles" /\ outcome["tileMatrixSets"] = "fulfilled")
  /\ outcome["tileMatrixSets"] = "rejected" =>
       (requests = <<"tileMatrixSets">>
          /\ bagCreateLayer = "Error: Failed to fetch TileMatrixSet")
  /\ outcome["styles"] = "rejected" =>
       bagCreateLayer = "Error: Failed to fetch style JSON"
  /\ (bagCreateLayer = "layer" \/ ol[SlotOf("bag")].created) =>
       (outcome["tileMatrixSets"] = "fulfilled" /\ outcome["styles"] = "fulfilled")
  /\ bagCreateLayer = "pending" <=> overlayPc # "done"

\* The tile matrix set arrived, the style request failed, and createLayer has
\* rejected without building a layer.
C15_Witness ==
  /\ requests = <<"tileMatrixSets", "styles">>
  /\ outcome["tileMatrixSets"] = "fulfilled"
  /\ outcome["styles"] = "rejected"
  /\ bagCreateLayer # "pending"
  /\ ~ol[SlotOf("bag")].created

\* --------------------------------------------------------------- C16
\* A step of initializeBaseMapsAsync, and a step of
\* initializeDefaultOverlayAsync.
BaseMapInitStep ==
  \/ OsmLayerCreated
  \/ BrtLayerCreated
  \/ BrtLayerFailed
  \/ LuchtfotoLayerCreated
  \/ LuchtfotoLayerFailed

OverlayInitStep ==
  \/ TileMatrixSetFailed
  \/ StyleFailed
  \/ \E tms \in TileMatrixSets : TileMatrixSetFetched(tms)
  \/ StyleFetched

BothInitialised == basePc = "done" /\ overlayPc = "done"

\* The basemaps initialisation lists, given how the requests settled.
ListedBaseMaps ==
  LET loaded(id) == id = "osm" \/ outcome[id] = "fulfilled"
      ids == SelectSeq(<<"osm", "pdok-brt", "luchtfoto">>, loaded)
  IN [i \in 1..Len(ids) |-> [id |-> ids[i], layer |-> SlotOf(ids[i])]]

\* C16: basemap initialisation writes only availableBaseMaps, activeBaseMap and
\* basemap visibility, overlay initialisation writes only layers(); both
\* terminate however the requests settle; and the final LayerManager state is
\* determined by how the requests settled, not by the order of the responses.
C16_InitialisationsIndependent ==
  /\ [][/\ BaseMapInitStep =>
             /\ layers' = layers
             /\ currentResolution' = currentResolution
             /\ ol'[SlotOf("bag")] = ol[SlotOf("bag")]
        /\ OverlayInitStep =>
             /\ availableBaseMaps' = availableBaseMaps
             /\ activeBaseMapId' = activeBaseMapId
             /\ currentResolution' = currentResolution
             /\ \A id \in BaseMapIds : ol'[SlotOf(id)] = ol[SlotOf(id)]]_vars
  /\ <>BothInitialised
  /\ [](BothInitialised =>
         /\ availableBaseMaps = ListedBaseMaps
         /\ activeBaseMapId =
              (IF outcome["pdok-brt"] = "rejected" THEN "osm" ELSE "pdok-brt")
         /\ \A i \in 1..Len(availableBaseMaps) :
              ol[availableBaseMaps[i].layer].visible
                <=> (availableBaseMaps[i].id = activeBaseMapId)
         /\ layers =
              (IF outcome["tileMatrixSets"] = "fulfilled" /\ outcome["styles"] = "fulfilled"
               THEN <<[id |-> "bag", visible |-> FALSE, layer |-> SlotOf("bag")]>>
               ELSE <<>>)
         /\ currentResolution = NULL)

\* Both initialisations have ended, one with a failure in it and one without.
C16_Witness ==
  /\ BothInitialised
  /\ outcome["pdok-brt"] = "rejected"
  /\ outcome["luchtfoto"] = "fulfilled"
  /\ outcome["styles"] = "fulfilled"

====
